---- MODULE Spec2Model ----
(***************************************************************************)
(* FunSearch (llm4ad/method/funsearch/funsearch.py): the main thread runs  *)
(* run(), num_samplers sampler threads run _sample_evaluate_register, and  *)
(* the evaluation executor runs up to num_evaluators tasks at a time.      *)
(* Every step of the model is one shared-memory access or one call of a    *)
(* collaborator (store, sampler, executor, profiler), so that the threads  *)
(* interleave as Python threads do.                                        *)
(***************************************************************************)
EXTENDS Integers, Sequences, FiniteSets, Bags, TLC

\* ------------------------------------------------------------- bounds
MaxSamplers == 2
MaxEvaluators == 2
MaxSamplesPerPrompt == 2
MaxCeiling == 2
MaxInFlight == 2
MaxBatch == 3

\* Python's None, where the code compares a score with None.
None == -1

NoProgram == "NoProgram"
NoFunction == "NoFunction"

\* The candidate texts the sampling backend can return, by what happens to
\* them downstream: "bad" does not parse into a Program, "nofn" parses and is
\* evaluated but does not convert back to a Function, "null" evaluates to a
\* None score, "ok" evaluates to a number.
Candidates == {"bad", "nofn", "null", "ok"}

VARIABLES
    conf,        \* the constructor's arguments (lines 75-81, 98) and the seed's score
    tot,         \* self._tot_sample_nums
    runpc,       \* where run() is
    nstarted,    \* how many of self._sampler_threads run() has started
    pc,          \* where each sampler thread is
    sampled,     \* sampled_funcs of the thread's iteration
    programs,    \* programs_to_be_eval
    futures,     \* futures: per task its state and, once run, its result
    results,     \* scores_times
    idx,         \* position of the thread's submit loop / register loop
    tmp,         \* the value of _tot_sample_nums the thread's += read
    queue,       \* the executor's work queue (tasks not yet started)
    orphanRun,   \* running tasks whose batch was abandoned by its thread
    poolShutdown,\* the executor's _shutdown flag
    tally,       \* per thread, what it has done for the triples of its batch
    registered,  \* the population store: what register_function was called with
    telemetry,   \* the profiler: what register_function was called with
    finished,    \* number of profiler.finish() calls
    seedCalls,   \* number of database.register_function calls made by run()
    interrupted  \* a SIGINT has been delivered to the process

vars == <<conf, tot, runpc, nstarted, pc, sampled, programs, futures, results,
          idx, tmp, tally, queue, orphanRun, poolShutdown, registered, telemetry,
          finished, seedCalls, interrupted>>

Samplers == 1..conf.num_samplers

\* ------------------------------------------------------ collaborators
\* SampleTrimmer.sample_to_program: None when the text does not parse.
SampleToProgram(c) == IF c = "bad" THEN NoProgram ELSE c

\* TextFunctionProgramConverter.program_to_function: None on failure.
ProgramToFunction(p) == IF p = "nofn" THEN NoFunction ELSE p

\* SecureEvaluator.evaluate_program_record_time: (score, eval_time), a
\* function of the program.
Score(p) == CASE p = "ok" -> 1 [] p = "nofn" -> 2 [] OTHER -> None
EvalTime(p) == CASE p = "ok" -> 3 [] p = "nofn" -> 4 [] OTHER -> 5
Evaluate(p) == <<Score(p), EvalTime(p)>>

\* ------------------------------------------------------------ helpers
\* The futures of a batch still to be run, as the executor sees them.
Pending(f) == f.st = "pending"
Running(f) == f.st = "running"

RunningTasks == {wi \in Samplers \X (1..conf.samples_per_prompt) :
                    /\ wi[2] <= Len(futures[wi[1]])
                    /\ Running(futures[wi[1]][wi[2]])}

\* Slots of the executor in use (max_workers = num_evaluators, lines 109-115).
BusySlots == Cardinality(RunningTasks) + orphanRun

\* Variant of line 123 that compares with <=.
WhileCondInclusive(t) == (conf.max_sample_nums = None) \/ (t <= conf.max_sample_nums)

\* line 123: the loop condition, on the value of the counter just read.
WhileCond(t) == (conf.max_sample_nums = None) \/ (t < conf.max_sample_nums)

\* Variant of line 195 that accepts every score.
SeedScoreOkAlways(score) == TRUE

\* line 195: the seed's score is acceptable.
SeedScoreOk(score) == score # None

\* Variant of line 163 without the test of the score.
ShouldRegisterAlways(score) == TRUE

\* line 163: the function is registered to the database.
ShouldRegister(score) == score # None

\* Variant of line 170 nested under the test of line 163.
ShouldProfileIfScored(score) == conf.profiler /\ score # None

\* line 170: the function is reported to the profiler, whatever its score.
ShouldProfile(score) == conf.profiler

\* Variant of lines 136-141 without the test of line 140.
ToProgramsAll(fs) == [i \in 1..Len(fs) |-> SampleToProgram(fs[i])]

\* lines 136-141: the programs of the samples that parse, in order.
RECURSIVE ToPrograms(_)
ToPrograms(fs) ==
    IF fs = <<>> THEN <<>>
    ELSE LET p == SampleToProgram(Head(fs))
         IN  IF p # NoProgram THEN <<p>> \o ToPrograms(Tail(fs))
             ELSE ToPrograms(Tail(fs))

\* Variant of line 149 that lists the results last future first.
ScoresTimesReversed(fs) == [i \in 1..Len(fs) |-> fs[Len(fs) + 1 - i].res]

\* line 149: [f.result() for f in futures].
ScoresTimes(fs) == [i \in 1..Len(fs) |-> fs[i].res]

\* line 154: zip(programs_to_be_eval, scores, times), the i-th triple.
Triple(ps, sts, i) == [program |-> ps[i], score |-> sts[i][1], eval_time |-> sts[i][2]]

\* What a thread has done for the triples of its current batch: executions
\* of line 156, calls of database.register_function, calls of
\* profiler.register_function.
NoTally == [counted |-> 0, registered |-> 0, reported |-> 0]

\* ---------------------------------------------------------------- Init
Configs ==
    [num_samplers : 1..MaxSamplers,
     num_evaluators : 1..MaxEvaluators,
     samples_per_prompt : 1..MaxSamplesPerPrompt,
     max_sample_nums : 1..MaxCeiling,
     resume_mode : BOOLEAN,
     debug_mode : BOOLEAN,
     profiler : BOOLEAN,
     seed_score : {None, 1}]

\* In resume mode the template program is never evaluated: its score is not
\* an input of the run. The runs explored are those with at most MaxInFlight
\* samples in the hands of the sampler threads at a time.
Inputs == {c \in Configs : /\ c.resume_mode => c.seed_score = 1
                           /\ c.num_samplers * c.samples_per_prompt <= MaxInFlight}

Init ==
    /\ conf \in Inputs
    /\ tot = 0
    /\ runpc = "run"
    /\ nstarted = 0
    /\ pc = [w \in 1..MaxSamplers |-> "unstarted"]
    /\ sampled = [w \in 1..MaxSamplers |-> <<>>]
    /\ programs = [w \in 1..MaxSamplers |-> <<>>]
    /\ futures = [w \in 1..MaxSamplers |-> <<>>]
    /\ results = [w \in 1..MaxSamplers |-> <<>>]
    /\ idx = [w \in 1..MaxSamplers |-> 0]
    /\ tmp = [w \in 1..MaxSamplers |-> 0]
    /\ tally = [w \in 1..MaxSamplers |-> NoTally]
    /\ queue = <<>>
    /\ orphanRun = 0
    /\ poolShutdown = FALSE
    /\ registered = {}
    /\ telemetry = {}
    /\ finished = 0
    /\ seedCalls = 0
    /\ interrupted = FALSE

workerVars == <<pc, sampled, programs, futures, results, idx, tmp, tally>>
poolVars == <<queue, orphanRun, poolShutdown>>

\* ------------------------------------------------------------- run()
\* lines 192-203: evaluate the template program; raise on a None score,
\* otherwise register the seed and report it to the profiler.
RunSeed ==
    /\ runpc = "run"
    /\ ~conf.resume_mode
    /\ IF ~SeedScoreOk(conf.seed_score)
       THEN /\ runpc' = "raised"
            /\ UNCHANGED <<registered, telemetry, seedCalls>>
       ELSE /\ runpc' = "start"
            /\ seedCalls' = seedCalls + 1
            /\ registered' = registered \cup
                   {[function |-> "seed", score |-> conf.seed_score]}
            /\ telemetry' = IF conf.profiler
                            THEN telemetry \cup {[function |-> "seed",
                                     score |-> conf.seed_score,
                                     evaluate_time |-> 0]}
                            ELSE telemetry
    /\ UNCHANGED <<conf, tot, nstarted, workerVars, poolVars, finished, interrupted>>

\* line 192 with resume_mode: nothing is evaluated or registered.
RunResume ==
    /\ runpc = "run"
    /\ conf.resume_mode
    /\ runpc' = "start"
    /\ UNCHANGED <<conf, tot, nstarted, workerVars, poolVars, registered,
                   telemetry, finished, interrupted, seedCalls>>

\* Variant of lines 206-207 that does not wait for lines 192-203.
RunStartThreadEarly ==
    /\ runpc \in {"run", "start"}
    /\ nstarted < conf.num_samplers
    /\ nstarted' = nstarted + 1
    /\ pc' = [pc EXCEPT ![nstarted + 1] = "while"]
    /\ runpc' = IF nstarted + 1 = conf.num_samplers THEN "join" ELSE runpc
    /\ UNCHANGED <<conf, tot, sampled, programs, futures, results, idx, tmp, tally,
                   poolVars, registered, telemetry, finished, interrupted, seedCalls>>

\* lines 206-207: t.start() of the next sampler thread.
RunStartThread ==
    /\ runpc = "start"
    /\ nstarted < conf.num_samplers
    /\ nstarted' = nstarted + 1
    /\ pc' = [pc EXCEPT ![nstarted + 1] = "while"]
    /\ runpc' = IF nstarted + 1 = conf.num_samplers THEN "join" ELSE "start"
    /\ UNCHANGED <<conf, tot, sampled, programs, futures, results, idx, tmp, tally,
                   poolVars, registered, telemetry, finished, interrupted, seedCalls>>

\* A sampler thread has left _sample_evaluate_register: it returned ("done")
\* or SystemExit ended it ("exited").
Ended(w) == pc[w] \in {"done", "exited"}

\* lines 210-214: join every thread, then profiler.finish().
RunJoinFinish ==
    /\ runpc = "join"
    /\ \A w \in Samplers : Ended(w)
    /\ finished' = IF conf.profiler THEN finished + 1 ELSE finished
    /\ runpc' = "returned"
    /\ UNCHANGED <<conf, tot, nstarted, workerVars, poolVars, registered,
                   telemetry, interrupted, seedCalls>>

\* SIGINT: Python runs signal handlers in the main thread only, so the
\* KeyboardInterrupt is raised in run() (evaluating the seed, starting or
\* joining threads) and propagates out of it; the sampler threads go on.
Interrupt ==
    /\ ~interrupted
    /\ runpc \in {"run", "start", "join"}
    /\ interrupted' = TRUE
    /\ runpc' = "interrupted"
    /\ UNCHANGED <<conf, tot, nstarted, workerVars, poolVars, registered,
                   telemetry, finished, seedCalls>>

\* ------------------------------------------- _sample_evaluate_register
\* The thread's locals at the top of an iteration.
FreshLocals(w) ==
    /\ sampled' = [sampled EXCEPT ![w] = <<>>]
    /\ programs' = [programs EXCEPT ![w] = <<>>]
    /\ results' = [results EXCEPT ![w] = <<>>]
    /\ idx' = [idx EXCEPT ![w] = 0]
    /\ tmp' = [tmp EXCEPT ![w] = 0]
    /\ tally' = [tally EXCEPT ![w] = NoTally]

\* The thread drops its futures (the iteration ends, normally or by an
\* exception); the tasks behind them stay in the executor, where nobody
\* waits for them any more.
Orphaned(q, w) == [k \in 1..Len(q) |-> IF q[k][1] = w THEN <<0, 0>> ELSE q[k]]
NumRunning(w) == Cardinality({i \in 1..Len(futures[w]) : Running(futures[w][i])})

DropFutures(w) ==
    /\ futures' = [futures EXCEPT ![w] = <<>>]
    /\ queue' = Orphaned(queue, w)
    /\ orphanRun' = orphanRun + NumRunning(w)

\* Variant of lines 179-183 that calls exit() whatever the debug mode.
AfterExceptionExit == "exited"

\* lines 179-183: an Exception inside the try. In debug mode exit() raises
\* SystemExit, which ends the calling thread only; otherwise continue.
AfterException == IF conf.debug_mode THEN "exited" ELSE "while"

Except(w) ==
    /\ pc' = [pc EXCEPT ![w] = AfterException]
    /\ FreshLocals(w)
    /\ DropFutures(w)
    /\ UNCHANGED poolShutdown

\* line 123: read the counter and test the loop condition.
WhileTest(w) ==
    /\ pc[w] = "while"
    /\ pc' = [pc EXCEPT ![w] = IF WhileCond(tot) THEN "sample" ELSE "shutdown"]
    /\ FreshLocals(w)
    /\ futures' = [futures EXCEPT ![w] = <<>>]
    /\ UNCHANGED <<conf, tot, runpc, nstarted, poolVars, registered,
                   telemetry, finished, interrupted, seedCalls>>

\* What draw_samples can return for samples_per_prompt copies of the prompt:
\* one sample per copy.
Batches == [1..conf.samples_per_prompt -> Candidates]

\* lines 126-141: get_prompt, draw_samples and the conversion of the samples
\* to programs; the sampler answers with a batch of B. With no program to
\* evaluate, lines 143-176 do nothing and the iteration is over.
Sample(w, B) ==
    /\ pc[w] = "sample"
    /\ \E fs \in B :
          LET ps == ToPrograms(fs)
          IN  /\ pc' = [pc EXCEPT ![w] = IF ps = <<>> THEN "while" ELSE "submit"]
              /\ sampled' = [sampled EXCEPT ![w] = fs]
              /\ programs' = [programs EXCEPT ![w] = ps]
              /\ idx' = [idx EXCEPT ![w] = IF ps = <<>> THEN 0 ELSE 1]
    /\ UNCHANGED <<conf, tot, runpc, nstarted, futures, results, tmp, tally, poolVars,
                   registered, telemetry, finished, interrupted, seedCalls>>

\* lines 126-133 failing: get_prompt or draw_samples raises, or draw_samples
\* returns no sample (ZeroDivisionError at line 133).
SampleFails(w) ==
    /\ pc[w] = "sample"
    /\ Except(w)
    /\ UNCHANGED <<conf, tot, runpc, nstarted, registered, telemetry, finished,
                   interrupted, seedCalls>>

\* Variant of submit that takes tasks after shutdown.
PoolAcceptsAlways == TRUE

\* line 146: executor.submit of the next program; RuntimeError once the
\* executor is shut down.
PoolAccepts == ~poolShutdown

Submit(w) ==
    /\ pc[w] = "submit"
    /\ IF PoolAccepts
       THEN /\ futures' = [futures EXCEPT ![w] = Append(@, [st |-> "pending", res |-> <<>>])]
            /\ queue' = Append(queue, <<w, idx[w]>>)
            /\ IF idx[w] = Len(programs[w])
               THEN /\ pc' = [pc EXCEPT ![w] = "collect"]
                    /\ idx' = [idx EXCEPT ![w] = 1]
               ELSE /\ idx' = [idx EXCEPT ![w] = @ + 1]
                    /\ UNCHANGED pc
            /\ UNCHANGED <<sampled, programs, results, tmp, tally, orphanRun,
                           poolShutdown>>
       ELSE Except(w)
    /\ UNCHANGED <<conf, tot, runpc, nstarted, registered, telemetry, finished,
                   interrupted, seedCalls>>

\* Variant of lines 149-150 that waits for no future.
FirstUnfinishedNone(fs) == Len(fs) + 1

\* The first future of the batch, in submission order, that has no result.
FirstUnfinished(fs) ==
    IF \A i \in 1..Len(fs) : fs[i].st = "done" THEN Len(fs) + 1
    ELSE CHOOSE i \in 1..Len(fs) :
            /\ fs[i].st # "done"
            /\ \A j \in 1..(i - 1) : fs[j].st = "done"

\* lines 149-150: f.result() of every future in submission order. It blocks
\* while the future is pending or running, and raises what the task raised,
\* or CancelledError (an Exception) for a cancelled future.
Collect(w) ==
    /\ pc[w] = "collect"
    /\ LET j == FirstUnfinished(futures[w])
       IN  IF j > Len(futures[w])
           THEN /\ results' = [results EXCEPT ![w] = ScoresTimes(futures[w])]
                /\ pc' = [pc EXCEPT ![w] = "inc"]
                /\ UNCHANGED <<sampled, programs, futures, idx, tmp, tally, poolVars>>
           ELSE /\ futures[w][j].st \in {"raised", "cancelled", "kbint"}
                /\ IF futures[w][j].st = "kbint"
                   THEN \* lines 177-178: except KeyboardInterrupt: break
                        /\ pc' = [pc EXCEPT ![w] = "shutdown"]
                        /\ FreshLocals(w)
                        /\ DropFutures(w)
                        /\ UNCHANGED poolShutdown
                   ELSE Except(w)
    /\ UNCHANGED <<conf, tot, runpc, nstarted, registered, telemetry, finished,
                   interrupted, seedCalls>>

\* line 156, first half of +=: load self._tot_sample_nums.
IncRead(w) ==
    /\ pc[w] = "inc"
    /\ tmp' = [tmp EXCEPT ![w] = tot]
    /\ pc' = [pc EXCEPT ![w] = "incw"]
    /\ UNCHANGED <<conf, tot, runpc, nstarted, sampled, programs, futures, results,
                   idx, tally, poolVars, registered, telemetry, finished, interrupted, seedCalls>>

\* Variant with line 156 after the check of lines 158-161: only a program
\* that converts to a Function is counted.
IncWriteIfConverts(w) ==
    /\ pc[w] = "incw"
    /\ IF ProgramToFunction(programs[w][idx[w]]) # NoFunction
       THEN /\ tot' = tmp[w] + 1
            /\ tally' = [tally EXCEPT ![w].counted = @ + 1]
       ELSE UNCHANGED <<tot, tally>>
    /\ tmp' = [tmp EXCEPT ![w] = 0]
    /\ pc' = [pc EXCEPT ![w] = "reg"]
    /\ UNCHANGED <<conf, runpc, nstarted, sampled, programs, futures, results,
                   idx, poolVars, registered, telemetry, finished, interrupted, seedCalls>>

\* line 156, second half of +=: store the loaded value plus one.
IncWrite(w) ==
    /\ pc[w] = "incw"
    /\ tot' = tmp[w] + 1
    /\ tmp' = [tmp EXCEPT ![w] = 0]
    /\ tally' = [tally EXCEPT ![w].counted = @ + 1]
    /\ pc' = [pc EXCEPT ![w] = "reg"]
    /\ UNCHANGED <<conf, runpc, nstarted, sampled, programs, futures, results,
                   idx, poolVars, registered, telemetry, finished, interrupted, seedCalls>>

\* The end of one round of the for loop of line 154: the next triple, or the
\* end of the try block and back to line 123.
NextTriple(w) ==
    /\ pc' = [pc EXCEPT ![w] = IF idx[w] < Len(programs[w]) THEN "inc" ELSE "while"]
    /\ idx' = [idx EXCEPT ![w] = IF idx[w] < Len(programs[w]) THEN @ + 1 ELSE 0]
    /\ UNCHANGED <<sampled, programs, futures, results, tmp, poolVars>>

\* lines 158-176: convert the program to a Function, register it to the
\* database when its score is not None, report it to the profiler.
Register(w) ==
    /\ pc[w] = "reg"
    /\ LET t == Triple(programs[w], results[w], idx[w])
           function == ProgramToFunction(t.program)
       IN  IF function = NoFunction
           THEN UNCHANGED <<registered, telemetry, tally>>
           ELSE /\ registered' =
                      IF ShouldRegister(t.score)
                      THEN registered \cup {[function |-> function, score |-> t.score]}
                      ELSE registered
                /\ telemetry' =
                      IF ShouldProfile(t.score)
                      THEN telemetry \cup {[function |-> function,
                                             score |-> t.score,
                                             evaluate_time |-> t.eval_time]}
                      ELSE telemetry
                /\ tally' = [tally EXCEPT
                      ![w].registered = IF ShouldRegister(t.score) THEN @ + 1 ELSE @,
                      ![w].reported = IF ShouldProfile(t.score) THEN @ + 1 ELSE @]
    /\ NextTriple(w)
    /\ UNCHANGED <<conf, tot, runpc, nstarted, finished, interrupted, seedCalls>>

\* line 164 failing: the database raises in register_function. The counter
\* has been incremented for the sample; nothing is reported for it.
RegisterFails(w) ==
    /\ pc[w] = "reg"
    /\ LET t == Triple(programs[w], results[w], idx[w])
       IN  /\ ProgramToFunction(t.program) # NoFunction
           /\ ShouldRegister(t.score)
    /\ Except(w)
    /\ UNCHANGED <<conf, tot, runpc, nstarted, registered, telemetry, finished,
                   interrupted, seedCalls>>

\* Executor.shutdown(cancel_futures=True): set the flag and cancel every
\* task that has not started.
Cancelled(fs) == [i \in 1..Len(fs) |->
                    IF Pending(fs[i]) THEN [fs[i] EXCEPT !.st = "cancelled"] ELSE fs[i]]

\* lines 186-189, the call.
Shutdown(w) ==
    /\ pc[w] = "shutdown"
    /\ poolShutdown' = TRUE
    /\ queue' = <<>>
    /\ futures' = [v \in 1..MaxSamplers |-> Cancelled(futures[v])]
    /\ pc' = [pc EXCEPT ![w] = "shutwait"]
    /\ UNCHANGED <<conf, tot, runpc, nstarted, sampled, programs, results, idx, tmp,
                   tally, orphanRun, registered, telemetry, finished, interrupted, seedCalls>>

\* lines 186-189, the return: shutdown(wait=True) returns when the running
\* tasks have finished.
ShutdownReturns(w) ==
    /\ pc[w] = "shutwait"
    /\ BusySlots = 0
    /\ pc' = [pc EXCEPT ![w] = "done"]
    /\ UNCHANGED <<conf, tot, runpc, nstarted, sampled, programs, futures, results,
                   idx, tmp, tally, poolVars, registered, telemetry, finished, interrupted, seedCalls>>

\* ------------------------------------------------- evaluation executor
\* An idle executor slot takes the oldest task of the queue.
EvalStart ==
    /\ queue # <<>>
    /\ BusySlots < conf.num_evaluators
    /\ LET t == Head(queue)
       IN  IF t[1] = 0
           THEN /\ orphanRun' = orphanRun + 1
                /\ UNCHANGED futures
           ELSE /\ futures' = [futures EXCEPT ![t[1]][t[2]].st = "running"]
                /\ UNCHANGED orphanRun
    /\ queue' = Tail(queue)
    /\ UNCHANGED <<conf, tot, runpc, nstarted, pc, sampled, programs, results, idx,
                   tmp, tally, poolShutdown, registered, telemetry, finished, interrupted, seedCalls>>

\* The task returns evaluate_program_record_time(program): the future gets
\* the result.
EvalReturns(w, i) ==
    /\ i <= Len(futures[w])
    /\ Running(futures[w][i])
    /\ futures' = [futures EXCEPT ![w][i] =
                      [st |-> "done", res |-> Evaluate(programs[w][i])]]
    /\ UNCHANGED <<conf, tot, runpc, nstarted, pc, sampled, programs, results, idx,
                   tmp, tally, poolVars, registered, telemetry, finished, interrupted, seedCalls>>

\* The task raises: an Exception of the evaluator, or, in a worker process
\* of a ProcessPoolExecutor that the SIGINT reached, KeyboardInterrupt. The
\* future re-raises it in result().
EvalRaises(w, i) ==
    /\ i <= Len(futures[w])
    /\ Running(futures[w][i])
    /\ \E e \in {"raised"} \cup (IF interrupted THEN {"kbint"} ELSE {}) :
          futures' = [futures EXCEPT ![w][i].st = e]
    /\ UNCHANGED <<conf, tot, runpc, nstarted, pc, sampled, programs, results, idx,
                   tmp, tally, poolVars, registered, telemetry, finished, interrupted, seedCalls>>

\* A task nobody waits for finishes.
OrphanEnds ==
    /\ orphanRun > 0
    /\ orphanRun' = orphanRun - 1
    /\ UNCHANGED <<conf, tot, runpc, nstarted, workerVars, queue, poolShutdown,
                   registered, telemetry, finished, interrupted, seedCalls>>

Next ==
    \/ RunSeed
    \/ RunResume
    \/ RunStartThread
    \/ RunJoinFinish
    \/ Interrupt
    \/ \E w \in Samplers : WhileTest(w)
    \/ \E w \in Samplers : Sample(w, Batches)
    \/ \E w \in Samplers : SampleFails(w)
    \/ \E w \in Samplers : Submit(w)
    \/ \E w \in Samplers : Collect(w)
    \/ \E w \in Samplers : IncRead(w)
    \/ \E w \in Samplers : IncWrite(w)
    \/ \E w \in Samplers : Register(w)
    \/ \E w \in Samplers : RegisterFails(w)
    \/ \E w \in Samplers : Shutdown(w)
    \/ \E w \in Samplers : ShutdownReturns(w)
    \/ EvalStart
    \/ \E w \in Samplers, i \in 1..MaxSamplesPerPrompt : EvalReturns(w, i)
    \/ \E w \in Samplers, i \in 1..MaxSamplesPerPrompt : EvalRaises(w, i)
    \/ OrphanEnds

Spec == Init /\ [][Next]_vars

\* ------------------------------------------- runs without a failure
\* The steps of a sampler thread when no collaborator raises and the sampler
\* answers with a batch of B.
ThreadStep(w, B) ==
    \/ WhileTest(w)
    \/ Sample(w, B)
    \/ Submit(w)
    \/ Collect(w)
    \/ IncRead(w)
    \/ IncWrite(w)
    \/ Register(w)
    \/ Shutdown(w)
    \/ ShutdownReturns(w)

\* The scenario: one sampler thread, one evaluator, batches of two, a
\* ceiling of two; every sample parses, converts and scores a number.
ScenarioInit ==
    /\ Init
    /\ conf.num_samplers = 1
    /\ conf.num_evaluators = 1
    /\ conf.samples_per_prompt = 2
    /\ conf.max_sample_nums = 2

ScenarioBatches == {<<"ok", "ok">>}

ScenarioNext ==
    \/ RunSeed
    \/ RunResume
    \/ RunStartThread
    \/ RunJoinFinish
    \/ \E w \in Samplers : ThreadStep(w, ScenarioBatches)
    \/ EvalStart
    \/ \E w \in Samplers, i \in 1..MaxSamplesPerPrompt : EvalReturns(w, i)

ScenarioSpec == ScenarioInit /\ [][ScenarioNext]_vars

\* Every collaborator answers, no SIGINT arrives, and every batch has a
\* sample that parses (and so is evaluated and counted).
LiveBatches == {fs \in Batches : \E i \in DOMAIN fs : fs[i] # "bad"}

RunStep == RunSeed \/ RunResume \/ RunStartThread \/ RunJoinFinish

LiveNext ==
    \/ RunStep
    \/ \E w \in Samplers : ThreadStep(w, LiveBatches)
    \/ EvalStart
    \/ \E w \in Samplers, i \in 1..MaxSamplesPerPrompt : EvalReturns(w, i)

\* Every thread (main, samplers, executor slots) that can take a step
\* eventually takes one.
LiveSpec ==
    /\ Init
    /\ [][LiveNext]_vars
    /\ WF_vars(RunStep)
    /\ \A w \in 1..MaxSamplers : WF_vars(ThreadStep(w, LiveBatches))
    /\ WF_vars(EvalStart)
    /\ \A w \in 1..MaxSamplers, i \in 1..MaxSamplesPerPrompt : WF_vars(EvalReturns(w, i))

\* ------------------------------------------- one thread, long batches
\* One sampler thread with batches of MaxBatch samples and two evaluators;
\* the collaborators may raise, no SIGINT arrives.
BatchInputs ==
    [num_samplers : {1},
     num_evaluators : {2},
     samples_per_prompt : {MaxBatch},
     max_sample_nums : 1..MaxCeiling,
     resume_mode : BOOLEAN,
     debug_mode : BOOLEAN,
     profiler : BOOLEAN,
     seed_score : {1}]

BatchInit ==
    /\ conf \in BatchInputs
    /\ tot = 0
    /\ runpc = "run"
    /\ nstarted = 0
    /\ pc = [w \in 1..MaxSamplers |-> "unstarted"]
    /\ sampled = [w \in 1..MaxSamplers |-> <<>>]
    /\ programs = [w \in 1..MaxSamplers |-> <<>>]
    /\ futures = [w \in 1..MaxSamplers |-> <<>>]
    /\ results = [w \in 1..MaxSamplers |-> <<>>]
    /\ idx = [w \in 1..MaxSamplers |-> 0]
    /\ tmp = [w \in 1..MaxSamplers |-> 0]
    /\ tally = [w \in 1..MaxSamplers |-> NoTally]
    /\ queue = <<>>
    /\ orphanRun = 0
    /\ poolShutdown = FALSE
    /\ registered = {}
    /\ telemetry = {}
    /\ finished = 0
    /\ seedCalls = 0
    /\ interrupted = FALSE

BatchNext ==
    \/ RunStep
    \/ \E w \in Samplers : ThreadStep(w, Batches)
    \/ \E w \in Samplers : SampleFails(w)
    \/ \E w \in Samplers : RegisterFails(w)
    \/ EvalStart
    \/ \E w \in Samplers, i \in 1..MaxBatch : EvalReturns(w, i)
    \/ \E w \in Samplers, i \in 1..MaxBatch : EvalRaises(w, i)
    \/ OrphanEnds

BatchSpec == BatchInit /\ [][BatchNext]_vars

\* ================================================================ claims
SeedEntry == [function |-> "seed", score |-> conf.seed_score]
Started(w) == pc[w] # "unstarted"
InRegisterLoop(w) == pc[w] \in {"inc", "incw", "reg"}

\* C1: when run() has returned without a SIGINT (every sampler thread has
\* left _sample_evaluate_register), the counter is at least max_sample_nums
\* and less than max_sample_nums + num_samplers * samples_per_prompt.
C1_FinalCounterInRange ==
    (runpc = "returned" /\ ~interrupted) =>
        /\ tot >= conf.max_sample_nums
        /\ tot < conf.max_sample_nums + conf.num_samplers * conf.samples_per_prompt

\* C2: every call of database.register_function, by run() or by a sampler
\* thread, has a Function that is not None and a score that is not None.
C2_RegisteredNonNull ==
    \A r \in registered : r.function # NoFunction /\ r.score # None

\* A thread has registered a sample, the seed is registered, and a sample
\* with a None score has gone through lines 158-176.
C2_Witness ==
    /\ SeedEntry \in registered
    /\ [function |-> "ok", score |-> 1] \in registered
    /\ \E t \in telemetry : t.function = "null" /\ t.score = None

\* C3: when not resuming, run() registers the seed exactly once, and does so
\* before any sampler thread runs (fetches a prompt) and before any sample
\* is registered.
C3_SeedRegisteredFirst ==
    ~conf.resume_mode =>
        /\ seedCalls <= 1
        /\ (\E w \in Samplers : Started(w)) =>
              (seedCalls = 1 /\ SeedEntry \in registered)
        /\ (\E r \in registered : r.function # "seed") =>
              (seedCalls = 1 /\ SeedEntry \in registered)
        /\ runpc \in {"join", "returned"} => seedCalls = 1

\* Not resuming, a sampler thread has registered a sample.
C3_Witness ==
    /\ ~conf.resume_mode
    /\ \E w \in Samplers : pc[w] = "sample"
    /\ \E r \in registered : r.function = "ok"

\* C4: not resuming and with a seed that evaluates to None, run() raises and
\* no sampler thread is ever started: nothing is sampled, submitted,
\* registered or reported and the counter stays 0.
C4_NullSeedAborts ==
    (~conf.resume_mode /\ conf.seed_score = None) =>
        /\ runpc \in {"run", "raised", "interrupted"}
        /\ nstarted = 0
        /\ \A w \in 1..MaxSamplers : ~Started(w) /\ sampled[w] = <<>>
        /\ tot = 0
        /\ registered = {} /\ telemetry = {} /\ seedCalls = 0
        /\ queue = <<>>

\* run() has raised RuntimeError at line 196.
C4_Witness == ~conf.resume_mode /\ conf.seed_score = None /\ runpc = "raised"

\* C5: every triple of the loop of line 154 pairs a program with the score
\* and the time of the evaluation of that program, and so does every report
\* to the profiler.
C5_ResultsMatchPrograms ==
    /\ \A w \in Samplers : InRegisterLoop(w) =>
          \A i \in 1..Len(programs[w]) :
             LET t == Triple(programs[w], results[w], i)
             IN  t.score = Score(t.program) /\ t.eval_time = EvalTime(t.program)
    /\ \A t \in telemetry : t.function # "seed" =>
          (t.score = Score(t.function) /\ t.evaluate_time = EvalTime(t.function))

\* A thread is at the second triple of a batch of two different programs
\* that two executor slots could run in either order, and the first triple
\* has been reported.
C5_Witness ==
    \E w \in Samplers :
        /\ pc[w] = "reg" /\ idx[w] = 2
        /\ programs[w][1] # programs[w][2]
        /\ conf.num_evaluators = 2
        /\ \E t \in telemetry : t.function = programs[w][1]

\* C8: the executor, once shut down, stays shut down and takes no new task;
\* every shutdown call returns to its thread without an error, and a call on
\* an executor that is already shut down changes nothing in it.
C8_ShutdownIdempotent ==
    [][ /\ poolShutdown => (poolShutdown' /\ queue' = <<>>)
        /\ poolShutdown => \A v \in Samplers : Len(futures'[v]) <= Len(futures[v])
        /\ \A w \in Samplers :
              (pc[w] = "shutdown" /\ pc'[w] # "shutdown") =>
                  /\ pc'[w] = "shutwait"
                  /\ poolShutdown'
                  /\ poolShutdown => UNCHANGED <<queue, futures, orphanRun>> ]_vars

\* Two threads are inside shutdown() of the same executor at once.
C8_Witness ==
    /\ conf.num_samplers = 2
    /\ pc[1] = "shutwait" /\ pc[2] = "shutwait"
    /\ poolShutdown

\* The try block of the thread's iteration ended without an exception.
CompletedBatch(w) == pc[w] = "while" /\ sampled[w] # <<>>

\* The number of triples of the batch whose round of the loop of line 154
\* is over.
Processed(w) ==
    CASE pc[w] \in {"inc", "incw"} -> idx[w] - 1
      [] pc[w] = "reg" -> idx[w] - 1
      [] CompletedBatch(w) -> Len(programs[w])
      [] OTHER -> 0

Converts(p) == ProgramToFunction(p) # NoFunction
NumOf(w, n, P(_)) == Cardinality({i \in 1..n : P(programs[w][i])})
IsNullScored(p) == Converts(p) /\ Score(p) = None
IsScored(p) == Converts(p) /\ Score(p) # None

\* C6: with a ceiling, no SIGINT, collaborators that always answer and fair
\* scheduling, every sampler thread leaves its loop and run() ends.
C6_RunEnds == <>(runpc \in {"returned", "raised"})

\* C7: once the SIGINT has been raised, a sampler thread that is at the top
\* of its loop does not start another iteration.
C7_NoBatchAfterInterrupt ==
    [][ \A w \in Samplers :
           (interrupted /\ pc[w] = "while") => pc'[w] # "sample" ]_vars

\* C9: in the scenario the thread asks for a batch only while the counter is
\* 0, ends that batch with two registrations and the counter at 2, and then
\* leaves the loop; the counter ends at exactly 2.
C9_TwoRegisteredCounterTwo ==
    /\ tot <= 2
    /\ pc[1] \in {"sample", "submit", "collect"} =>
          (tot = 0 /\ [function |-> "ok", score |-> 1] \notin registered)
    /\ CompletedBatch(1) =>
          (tot = 2 /\ tally[1].registered = 2 /\ tally[1].counted = 2)
    /\ pc[1] \in {"shutdown", "shutwait", "done"} =>
          (tot = 2 /\ [function |-> "ok", score |-> 1] \in registered)
    /\ runpc = "returned" => (pc[1] = "done" /\ tot = 2)

\* The thread has left the loop after its batch and run() has returned.
C9_Witness ==
    /\ runpc = "returned" /\ pc[1] = "done"
    /\ tot = 2
    /\ [function |-> "ok", score |-> 1] \in registered

\* C10 as stated: a sample that converts and scores None is counted once,
\* reported to the profiler once and never registered; a completed batch of
\* one sample that does not parse and one that scores None has one
\* increment, no registration and one report.
C10_NullScoreReported ==
    /\ \A r \in registered : r.function # "null"
    /\ \A w \in Samplers :
          /\ InRegisterLoop(w) \/ CompletedBatch(w) =>
                /\ tally[w].counted >= Processed(w)
                /\ tally[w].reported >= NumOf(w, Processed(w), IsNullScored)
          /\ (CompletedBatch(w) /\ sampled[w] \in {<<"bad", "null">>, <<"null", "bad">>}) =>
                /\ tally[w].counted = 1
                /\ tally[w].registered = 0
                /\ tally[w].reported = 1

\* C10 amended: with a profiler configured, line 156 is executed once for
\* every triple, the profiler gets exactly one report for every triple whose
\* program converts (with the triple's score, None included), the database
\* gets one registration for every such triple with a score and none for a
\* None score; a completed batch of one sample that does not parse and one
\* that scores None has one increment, no registration and one report.
C10_NullScoreReportedIfProfiler ==
    /\ \A r \in registered : r.function # "null"
    /\ \A w \in Samplers :
          /\ InRegisterLoop(w) \/ CompletedBatch(w) =>
                /\ tally[w].counted = Processed(w) + (IF pc[w] = "reg" THEN 1 ELSE 0)
                /\ tally[w].registered = NumOf(w, Processed(w), IsScored)
                /\ conf.profiler =>
                      /\ tally[w].reported = NumOf(w, Processed(w), Converts)
                      /\ \A i \in 1..Processed(w) :
                            IsNullScored(programs[w][i]) =>
                               [function |-> programs[w][i], score |-> None,
                                evaluate_time |-> EvalTime(programs[w][i])] \in telemetry
          /\ (conf.profiler /\ CompletedBatch(w)
                /\ sampled[w] \in {<<"bad", "null">>, <<"null", "bad">>}) =>
                /\ tally[w].counted = 1
                /\ tally[w].registered = 0
                /\ tally[w].reported = 1

\* A thread has completed a batch of one sample that does not parse and one
\* that scores None, with a profiler that got the report.
C10_Witness ==
    \E w \in Samplers :
        /\ conf.profiler
        /\ CompletedBatch(w)
        /\ sampled[w] = <<"bad", "null">>
        /\ \E t \in telemetry : t.function = "null" /\ t.score = None

\* C11: the counter never decreases: no step of any thread, under any
\* interleaving of the threads' executions of line 156, leaves
\* _tot_sample_nums smaller than it was.
C11_CounterNeverDecreases == [][tot' >= tot]_vars

\* Thread w completes an execution of line 156 in this step.
Increments(w) == pc[w] = "incw" /\ pc'[w] = "reg"

\* C12: the increments of the threads are atomic: every execution of line
\* 156 raises the counter by exactly one and nothing else changes it, so
\* that the counter, which starts at 0, always equals the number of
\* executions of line 156 by all threads (no update is lost).
C12_IncrementsAtomic ==
    [][ /\ \A w \in Samplers : Increments(w) => tot' = tot + 1
        /\ tot' # tot => \E w \in Samplers : Increments(w) ]_vars

\* The samples of the thread's batch that parse to a Program.
Parsed(w) == {i \in DOMAIN sampled[w] : SampleToProgram(sampled[w][i]) # NoProgram}

Parses(c) == SampleToProgram(c) # NoProgram

\* The samples of the thread's batch that parse, in the order of the batch.
ParsedSamples(w) == SelectSeq(sampled[w], Parses)

\* The positions, in the executor's queue, of the tasks of thread w.
QueuedOf(w) == {k \in 1..Len(queue) : queue[k][1] = w}

\* C14: a sample that does not parse into a Program is dropped silently. The
\* programs of the batch are those of the samples that parse, in the order
\* of the batch; the tasks submitted are for these programs and in that
\* order (the i-th future evaluates the i-th program); line 156 is executed
\* at most once for each of them; nothing that did not parse is registered
\* or reported; and the thread that drew the batch goes on to submit the
\* programs, or to the next iteration when there is none, without raising.
C14_UnparsedDropped ==
    /\ [](\A w \in Samplers :
             /\ programs[w] = [i \in 1..Len(ParsedSamples(w)) |->
                                  SampleToProgram(ParsedSamples(w)[i])]
             /\ Len(futures[w]) <= Len(programs[w])
             /\ \A i \in 1..Len(futures[w]) :
                   futures[w][i].st = "done" =>
                       futures[w][i].res = Evaluate(programs[w][i])
             /\ \A k \in QueuedOf(w) : queue[k][2] \in 1..Len(programs[w])
             /\ \A k, l \in QueuedOf(w) : k < l => queue[k][2] < queue[l][2]
             /\ tally[w].counted <= Len(programs[w]))
    /\ [](/\ \A r \in registered : r.function \notin {"bad", NoProgram}
          /\ \A t \in telemetry : t.function \notin {"bad", NoProgram})
    /\ [][ \A w \in Samplers :
              (pc[w] = "sample" /\ sampled'[w] # <<>>) =>
                  pc'[w] = IF programs'[w] = <<>> THEN "while" ELSE "submit" ]_vars

\* A thread has completed a batch whose middle sample did not parse: the
\* two others were evaluated in their order, counted, and registered or
\* reported.
C14_Witness ==
    \E w \in Samplers :
        /\ CompletedBatch(w)
        /\ sampled[w] = <<"ok", "bad", "null">>
        /\ programs[w] = <<"ok", "null">>
        /\ results[w] = <<Evaluate("ok"), Evaluate("null")>>
        /\ tally[w].counted = 2
        /\ [function |-> "ok", score |-> 1] \in registered

\* Every program of the thread's batch has been submitted and its result
\* collected into scores_times.
AllCollected(w) ==
    /\ Len(futures[w]) = Len(programs[w])
    /\ \A i \in 1..Len(futures[w]) : futures[w][i].st = "done"
    /\ results[w] = [i \in 1..Len(futures[w]) |-> futures[w][i].res]

\* The result() of a future of the thread's batch raises.
CollectFails(w) ==
    /\ pc[w] = "collect"
    /\ \E i \in 1..Len(futures[w]) : futures[w][i].st \in {"raised", "cancelled", "kbint"}
    /\ pc'[w] # "collect"

\* C15: the batch is a barrier. A thread is in the loop of line 154, or has
\* counted, registered or reported a sample of its batch, only with the
\* results of all the programs of the batch collected; up to then it has
\* counted, registered and reported nothing of the batch; and when a result()
\* raises (the evaluation raised, or a shutdown cancelled the task) the step
\* changes neither the counter, the database nor the profiler and discards
\* the batch, so that none of its samples is counted, registered or reported.
C15_BatchBarrier ==
    /\ [](\A w \in Samplers :
             /\ (InRegisterLoop(w) \/ tally[w] # NoTally) => AllCollected(w)
             /\ pc[w] \in {"sample", "submit", "collect"} => tally[w] = NoTally)
    /\ [][ \A w \in Samplers :
              /\ CollectFails(w) =>
                    /\ tally[w] = NoTally
                    /\ UNCHANGED <<tot, registered, telemetry>>
                    /\ pc'[w] \in {"while", "exited", "shutdown"}
                    /\ programs'[w] = <<>> /\ results'[w] = <<>> /\ futures'[w] = <<>>
                    /\ tally'[w] = NoTally
              /\ tally'[w] # tally[w] =>
                    \/ AllCollected(w) /\ InRegisterLoop(w)
                    \/ tally'[w] = NoTally ]_vars

\* A thread waits for the results of a batch of two programs: the first
\* evaluation has returned, the second has raised.
C15_Witness ==
    \E w \in Samplers :
        /\ pc[w] = "collect"
        /\ Len(futures[w]) = 2
        /\ futures[w][1].st = "done"
        /\ futures[w][2].st = "raised"
        /\ tally[w] = NoTally

\* A step in which the iteration of thread w raises an Exception: get_prompt
\* or draw_samples raises or no sample comes back, submit is refused, a
\* result() raises, or register_function raises.
IterationFails(w) ==
    \/ pc[w] = "sample" /\ pc'[w] # "sample" /\ sampled'[w] = <<>>
    \/ pc[w] = "submit" /\ pc'[w] # "submit" /\ poolShutdown
    \/ /\ pc[w] = "collect" /\ pc'[w] # "collect"
       /\ \E i \in 1..Len(futures[w]) :
             /\ futures[w][i].st \in {"raised", "cancelled"}
             /\ \A j \in 1..(i - 1) : futures[w][j].st = "done"
    \/ pc[w] = "reg" /\ pc'[w] # "reg" /\ sampled'[w] = <<>>

\* C16: with debug mode off, an Exception in a thread's iteration ends that
\* iteration only: the thread is back at the test of line 123, the counter,
\* the database and the profiler keep what the iteration has done, and the
\* executor and the other threads are not affected.
C16_FailureEndsIterationOnly ==
    [][ ~conf.debug_mode =>
           \A w \in Samplers :
              IterationFails(w) =>
                 /\ pc'[w] = "while"
                 /\ UNCHANGED <<tot, registered, telemetry, poolShutdown, runpc>>
                 /\ \A v \in Samplers \ {w} :
                       /\ pc'[v] = pc[v]
                       /\ futures'[v] = futures[v]
                       /\ tally'[v] = tally[v] ]_vars

\* With debug mode off, the single thread is back at line 123 after an
\* iteration that raised, with the increments and the registration made
\* before the exception in place.
C16_Witness ==
    /\ ~conf.debug_mode
    /\ conf.num_samplers = 1
    /\ pc[1] = "while" /\ sampled[1] = <<>>
    /\ tot = 2
    /\ [function |-> "ok", score |-> 1] \in registered

\* A thread has gone through the debug-mode branch of lines 180-182.
DebugFailed == \E w \in Samplers : pc[w] = "exited"

\* C17: with debug mode on, an Exception in a thread's iteration ends the
\* process: once a thread has called exit() at line 182, no thread asks for
\* another prompt, submits another program, executes line 156 or registers
\* another function.
C17_DebugFailureStopsAll ==
    [][ DebugFailed =>
           /\ \A v \in Samplers :
                 /\ pc[v] = "while" => pc'[v] # "sample"
                 /\ Len(futures'[v]) <= Len(futures[v])
                 /\ ~Increments(v)
           /\ UNCHANGED <<tot, registered>> ]_vars

\* C18: a sampler thread ends only out of its shutdown call: whatever made
\* it leave the loop (the ceiling, a KeyboardInterrupt, an Exception in
\* debug mode), it has called executor.shutdown(cancel_futures=True) before
\* it ends.
C18_EndsOnlyAfterShutdown ==
    [][ \A w \in Samplers :
           (Ended(w)' /\ ~Ended(w)) => (pc[w] = "shutwait" /\ poolShutdown) ]_vars

AllEnded == \A w \in Samplers : Ended(w)

\* C19: run() calls profiler.finish() exactly once and only when every
\* sampler thread has left _sample_evaluate_register; after the call no
\* thread reports, registers or executes line 156; and a run whose threads
\* have all stopped, by the ceiling or after a SIGINT, has made the call.
C19_FinishOnceAfterWorkers ==
    /\ [](finished <= 1)
    /\ [](finished = 1 => AllEnded)
    /\ [][finished >= 1 => UNCHANGED <<tot, registered, telemetry>>]_vars
    /\ []((conf.profiler /\ AllEnded /\ runpc # "join") => finished = 1)

\* C20: without a SIGINT and with debug mode off, the executor is shut down
\* only with the counter at or above max_sample_nums, and the counter stays
\* there: no thread passes the test of line 123 into an iteration that
\* needs an executor that is already shut down.
C20_ShutdownImpliesCeiling ==
    (~interrupted /\ ~conf.debug_mode /\ poolShutdown) =>
        tot >= conf.max_sample_nums

====
